---- MODULE Spec2Model ----
(***************************************************************************)
(* Model of plugins/modules/slurm_scontrol.py: one run of run_module()     *)
(* against the Slurm control command.  Every blocking call of              *)
(* module.run_command is one step; the answer of the command (return code, *)
(* exception, parseable output) is chosen by the environment.              *)
(***************************************************************************)
EXTENDS Integers, Sequences, FiniteSets, TLC

(* ---------------------------- bounds ----------------------------------- *)
MaxNodes == 2
\* answers other than rc = 0 plus changes made by somebody else, per run
MaxDisturbances == 1

(* ------------------------- values and inputs --------------------------- *)
\* Python's None (distinct from every str of the model, also from "None")
None == "<None>"

NODE_ALLOWED_STATES ==
    {"DOWN", "DRAIN", "FAIL", "FUTURE", "NORESP", "POWER_DOWN",
     "POWER_DOWN_ASAP", "POWER_DOWN_FORCE", "POWER_UP", "RESUME", "UNDRAIN"}

Names == {"n1", "n2"}
NewStateInputs == {None, "", "DRAIN", "drain", "RESUME", "BOGUS"}
ReasonInputs == {None, "", "x", "maint"}

\* records `scontrol --yaml show node=` can answer with at the start of a run
ObservedStates == {{"IDLE"}, {"IDLE", "DRAIN"}}
ObservedReasons == {"", "maint"}
NodeRecords == [state : ObservedStates, reason : ObservedReasons]

NodeLists == UNION {[1..n -> Names] : n \in 0..MaxNodes}
Range(seq) == {seq[k] : k \in 1..Len(seq)}

\* str.upper() on the strings it is applied to: str() of a NewStateInputs
Upper(s) ==
    CASE s = "drain" -> "DRAIN"
      [] s = "None" -> "NONE"
      [] OTHER -> s

\* str(v): None becomes the text "None", a str is itself
Str(v) == IF v = None THEN "None" ELSE v

\* truth value of an optional str parameter: None and '' are false
Truthy(v) == v # None /\ v # ""

\* the '' that result['data'] holds before a snapshot is stored
NoData == <<>>
EmptyDict == <<>>

\* dict item assignment d[k] = v
DictSet(d, k, v) == [x \in (DOMAIN d) \cup {k} |-> IF x = k THEN v ELSE d[x]]

\* answers of module.run_command: returned with rc = 0, returned with
\* rc # 0 (check_rc is not set, so nothing is raised), or raised
RunOutcomes == {"ok", "rc_nonzero", "raised"}
\* for `scontrol --yaml show node=` also: returned, and yaml_load or
\* ['nodes'][0] raises on the output
ShowOutcomes == RunOutcomes \cup {"unparseable"}

VARIABLES
    nodes,            \* module.params['nodes']
    new_state,        \* module.params['new_state']
    new_state_reason, \* module.params['new_state_reason']
    check_mode,       \* module.check_mode
    pc,               \* position in run_module
    i,                \* index of the running for loop (1-based)
    result,           \* the result dict
    msg,              \* msg of fail_json, None when not failed
    nodes_data,       \* local dict of the running collectNodesStatus
    nodes_1,          \* first snapshot
    nodes_2,          \* second snapshot
    cluster,          \* the nodes of the list as slurmctld has them
    calls,            \* the commands given to module.run_command, in order
    disturbances,     \* answers other than rc = 0 and changes made to the
                      \* cluster by somebody else, so far
    run,              \* 1, or 2 when the module is run again on the same input
    prev_calls        \* the calls of the run before, <<>> in the first run

vars == <<nodes, new_state, new_state_reason, check_mode, pc, i, result, msg,
          nodes_data, nodes_1, nodes_2, cluster, calls, disturbances,
          run, prev_calls>>

\* what no step of a run changes: the parameters, and which run it is
params == <<nodes, new_state, new_state_reason, check_mode, run, prev_calls>>

Terminal == {"done", "failed", "crashed"}

InitResult ==
    [changed |-> FALSE, state_changed |-> FALSE, reason_changed |-> FALSE,
     scontrol_commands |-> <<>>, data |-> NoData, scontrol_update_ran |-> FALSE]

Init ==
    /\ nodes \in NodeLists
    /\ new_state \in NewStateInputs
    /\ new_state_reason \in ReasonInputs
    /\ check_mode \in BOOLEAN
    /\ pc = "sanity"
    /\ i = 1
    /\ result = InitResult
    /\ msg = None
    /\ nodes_data = EmptyDict
    /\ nodes_1 = EmptyDict
    /\ nodes_2 = EmptyDict
    /\ cluster \in [Range(nodes) -> NodeRecords]
    /\ calls = <<>>
    /\ disturbances = 0
    /\ run = 1
    /\ prev_calls = <<>>

\* module.fail_json(msg=m, **result): the run ends as failed
FailJson(m) == pc' = "failed" /\ msg' = m

(* ------------------------- sanity checking ----------------------------- *)
\* the two asserts under "when changing state to drain, we need reason"
ReasonAsserts(reason) == Len(Str(reason)) > 1 /\ reason # None

\* mutant: the assert on NODE_ALLOWED_STATES is left out
SanityOkNoTokenCheck(st, reason) ==
    Truthy(st) => (Upper(Str(st)) = "DRAIN" => ReasonAsserts(reason))

SanityOk(st, reason) ==
    Truthy(st) =>
        /\ Upper(Str(st)) \in NODE_ALLOWED_STATES
        /\ (Upper(Str(st)) = "DRAIN" => ReasonAsserts(reason))

SanityMsg(st) ==
    IF Upper(Str(st)) \notin NODE_ALLOWED_STATES
    THEN "new_state is not in NODE_ALLOWED_STATES"
    ELSE "If next state if drain, we need 'new_state_reason' argument to be specified."

SanityCheck ==
    /\ pc = "sanity"
    /\ IF SanityOk(new_state, new_state_reason)
       THEN pc' = "ping" /\ msg' = msg
       ELSE FailJson(SanityMsg(new_state))
    /\ UNCHANGED <<params, i, result, nodes_data, nodes_1, nodes_2, cluster,
                   calls, disturbances>>

(* --------------------------- run_command ------------------------------- *)
\* module.run_command(cmd) answered with out: the call is logged
RunCommand(op, node, out) ==
    /\ out # "ok" => disturbances < MaxDisturbances
    /\ disturbances' = IF out = "ok" THEN disturbances ELSE disturbances + 1
    /\ calls' = Append(calls, [op |-> op, node |-> node, out |-> out])

(* ---------------------------- scontrolPing ----------------------------- *)
\* the except branch of scontrolPing is taken
PingFails(out) == out = "raised"

\* line 160: is there a node to collect
HaveNodes(ns) == Len(ns) > 0

ScontrolPing ==
    /\ pc = "ping"
    /\ \E out \in RunOutcomes :
        /\ RunCommand("ping", None, out)
        /\ IF PingFails(out)
           THEN FailJson("Calling scontrol ping failed") /\ i' = i
           ELSE IF HaveNodes(nodes)
                THEN pc' = "collect_1" /\ i' = 1 /\ msg' = msg
                ELSE FailJson("No nodes provided, that's unexpeted.") /\ i' = i
    /\ nodes_data' = EmptyDict
    /\ UNCHANGED <<params, result, nodes_1, nodes_2, cluster>>

(* -------------------------- collectNodesStatus ------------------------- *)
\* the except branch of collectNodesStatus is taken
ShowFails(out) == out = "raised"

\* yaml_load(scontrol_out[1])['nodes'][0] raises: nothing catches it
ShowCrashes(out) == out = "unparseable"

\* mutant: the loop is entered without a new_state
WantsUpdateAlways(ns, st) == Len(ns) > 0

\* line 165: a new state is asked for
WantsUpdate(ns, st) == Len(ns) > 0 /\ Truthy(st)

\* lines 187, 193, 195: the second snapshot is reported
ExitWithSecond(r, snap) ==
    [r EXCEPT !.data = snap, !.changed = r.scontrol_update_ran]

\* one iteration of the for loop of collectNodesStatus; after the last one
\* the dict is returned to run_module, which goes on to its next call
CollectNodesStatus(phase) ==
    /\ pc = phase
    /\ i <= Len(nodes)
    /\ \E out \in ShowOutcomes :
        /\ RunCommand("show", nodes[i], out)
        /\ IF ShowFails(out)
           THEN /\ FailJson("Calling scontrol show failed")
                /\ UNCHANGED <<i, result, nodes_data, nodes_1, nodes_2>>
           ELSE IF ShowCrashes(out)
           THEN /\ pc' = "crashed"
                /\ UNCHANGED <<i, msg, result, nodes_data, nodes_1, nodes_2>>
           ELSE
                /\ nodes_data' = DictSet(nodes_data, nodes[i], cluster[nodes[i]])
                /\ msg' = msg
                /\ IF i < Len(nodes)
                   THEN /\ i' = i + 1
                        /\ UNCHANGED <<pc, result, nodes_1, nodes_2>>
                   ELSE IF phase = "collect_1"
                   THEN /\ nodes_1' = nodes_data'
                        /\ i' = 1
                        /\ pc' = IF WantsUpdate(nodes, new_state)
                                 THEN "update" ELSE "report"
                        /\ UNCHANGED <<result, nodes_2>>
                   ELSE /\ nodes_2' = nodes_data'
                        /\ result' = ExitWithSecond(result, nodes_2')
                        /\ pc' = "done"
                        /\ UNCHANGED <<i, nodes_1>>
    /\ UNCHANGED <<params, cluster>>

CollectFirst == CollectNodesStatus("collect_1")
CollectSecond == CollectNodesStatus("collect_2")

(* ------------------------- the update loop ----------------------------- *)
\* mutant: the token is looked up in the node as it is now, not in the
\* record passed in
StateChangedLive(st, rec) == ~ (Upper(Str(st)) \in cluster[nodes[i]].state)

\* mutant: the token is compared with the whole state list
StateChangedWholeSet(st, rec) == ~ ({Upper(Str(st))} = rec.state)

\* line 169
StateChanged(st, rec) == ~ (Upper(Str(st)) \in rec.state)

\* mutant: an unset reason is compared as the empty text
ReasonChangedNoneAsEmpty(reason, rec) ==
    ~ ((IF reason = None THEN "" ELSE reason) = rec.reason)

\* line 170
ReasonChanged(reason, rec) == ~ (Str(reason) = rec.reason)

\* mutant: continue unless both differ
NeedsActionBoth(sc, rc) == sc /\ rc

\* line 173: continue when nothing differs
NeedsAction(sc, rc) == ~ (~sc /\ ~rc)

\* mutant: the reason is left empty when the reason of the node is already
\* the desired one
ScontrolCommandReasonIfChanged(node, st, reason) ==
    [node |-> node, state |-> Str(st),
     reason |-> IF Str(reason) = nodes_1[node].reason THEN "" ELSE Str(reason)]

\* line 178: the text is made of the node, new_state and new_state_reason
\* as given (None is formatted as None)
ScontrolCommand(node, st, reason) ==
    [node |-> node, state |-> Str(st), reason |-> Str(reason)]

\* line 180
Submits(cm) == ~cm

\* the except branch of line 182 is taken
UpdateFails(out) == out = "raised"

\* what slurmctld does with an update it answers with rc = 0
Updated(rec, cmd) ==
    [state |-> rec.state \cup {Upper(cmd.state)}, reason |-> cmd.reason]

\* mutant: the node is handled again when its command was answered with
\* a failure
UpdateNextRetry ==
    LET again == disturbances' > disturbances
    IN  /\ i' = IF again THEN i ELSE IF i < Len(nodes) THEN i + 1 ELSE i
        /\ pc' = IF again \/ i < Len(nodes) THEN "update" ELSE "report"
        /\ msg' = msg

\* the for loop of line 167 goes on to the next node, or ends
UpdateNext ==
    /\ i' = IF i < Len(nodes) THEN i + 1 ELSE i
    /\ pc' = IF i < Len(nodes) THEN "update" ELSE "report"
    /\ msg' = msg

\* one iteration of the for loop of lines 167-183
UpdateNode ==
    /\ pc = "update"
    /\ LET node == nodes[i]
           sc == StateChanged(new_state, nodes_1[node])
           rc == ReasonChanged(new_state_reason, nodes_1[node])
           cmd == ScontrolCommand(node, new_state, new_state_reason)
           r1 == [result EXCEPT !.state_changed = sc, !.reason_changed = rc]
           r2 == [r1 EXCEPT !.scontrol_update_ran = TRUE,
                            !.scontrol_commands = Append(@, cmd)]
       IN  IF ~NeedsAction(sc, rc)
           THEN /\ result' = r1
                /\ UNCHANGED <<cluster, calls, disturbances>>
                /\ UpdateNext
           ELSE /\ result' = r2
                /\ IF Submits(check_mode)
                   THEN \E out \in RunOutcomes :
                        /\ RunCommand("update", node, out)
                        /\ IF UpdateFails(out)
                           THEN /\ FailJson("Calling scontrol update failed")
                                /\ UNCHANGED <<i, cluster>>
                           ELSE /\ UpdateNext
                                /\ cluster' = IF out = "ok"
                                     THEN [cluster EXCEPT ![node] = Updated(@, cmd)]
                                     ELSE cluster
                   ELSE /\ UNCHANGED <<cluster, calls, disturbances>>
                        /\ UpdateNext
    /\ UNCHANGED <<params, nodes_data, nodes_1, nodes_2>>

(* ------------------------------ the report ----------------------------- *)
\* line 185
Recollects(r) == r.scontrol_update_ran

\* lines 189, 193, 195: the first snapshot is reported
ExitWithFirst(r, snap) ==
    [r EXCEPT !.data = snap, !.changed = r.scontrol_update_ran]

Report ==
    /\ pc = "report"
    /\ IF Recollects(result)
       THEN /\ pc' = "collect_2"
            /\ i' = 1
            /\ nodes_data' = EmptyDict
            /\ result' = result
       ELSE /\ pc' = "done"
            /\ result' = ExitWithFirst(result, nodes_1)
            /\ UNCHANGED <<i, nodes_data>>
    /\ UNCHANGED <<params, msg, nodes_1, nodes_2, cluster, calls,
                   disturbances>>

(* ---------------------------- the environment -------------------------- *)
\* somebody else changes a node the run has read already (a change before
\* the first read is another initial cluster)
EnvChange ==
    /\ pc \in {"collect_1", "update", "collect_2"}
    /\ disturbances < MaxDisturbances
    /\ disturbances' = disturbances + 1
    /\ \E n \in DOMAIN nodes_1 \cup DOMAIN nodes_data, rec \in NodeRecords :
        /\ rec # cluster[n]
        /\ cluster' = [cluster EXCEPT ![n] = rec]
    /\ UNCHANGED <<params, pc, i, result, msg, nodes_data, nodes_1, nodes_2,
                   calls>>

Next ==
    \/ SanityCheck
    \/ ScontrolPing
    \/ CollectFirst
    \/ CollectSecond
    \/ UpdateNode
    \/ Report
    \/ EnvChange

Spec == Init /\ [][Next]_vars

\* one thread of blocking calls, each of which returns: the run goes on as
\* long as it has a step to take
RunStep ==
    \/ SanityCheck
    \/ ScontrolPing
    \/ CollectFirst
    \/ CollectSecond
    \/ UpdateNode
    \/ Report

SpecFair == Spec /\ WF_vars(RunStep)

(* ------------------------- the module run twice ------------------------ *)
\* after exit_json the module is run again with the same parameters, in
\* the same mode, on the cluster as the first run left it
RunAgain ==
    /\ pc = "done"
    /\ run = 1
    /\ run' = 2
    /\ prev_calls' = calls
    /\ pc' = "sanity"
    /\ i' = 1
    /\ result' = InitResult
    /\ msg' = None
    /\ nodes_data' = EmptyDict
    /\ nodes_1' = EmptyDict
    /\ nodes_2' = EmptyDict
    /\ calls' = <<>>
    /\ UNCHANGED <<nodes, new_state, new_state_reason, check_mode, cluster,
                   disturbances>>

\* two runs in a row with nobody else changing the nodes
NextTwoRuns ==
    \/ SanityCheck
    \/ ScontrolPing
    \/ CollectFirst
    \/ CollectSecond
    \/ UpdateNode
    \/ Report
    \/ RunAgain

SpecTwoRuns == Init /\ [][NextTwoRuns]_vars

(* ======================= properties of a run =========================== *)
commands == result.scontrol_commands
CallsTo(op) == {k \in 1..Len(calls) : calls[k].op = op}
NoUpdateSubmitted == CallsTo("update") = {}
Planning == {"update", "report", "collect_2", "done"}
IsShow(c) == c.op = "show"

\* the desired state differs from the first snapshot of node n: the upper-cased
\* token is not among its state tokens, or the reason text is another
NodeDiffers(n) ==
    \/ Upper(Str(new_state)) \notin nodes_1[n].state
    \/ Str(new_state_reason) # nodes_1[n].reason

\* C1: in a dry-run with a non-empty plan the list of issued actions is
\* non-empty, no update command is submitted, and the reported data is the
\* initial snapshot.
DryRunNonMutation ==
    check_mode =>
        /\ NoUpdateSubmitted
        /\ (pc = "done" /\ Truthy(new_state)
               /\ \E n \in DOMAIN nodes_1 : NodeDiffers(n))
           => (commands # <<>> /\ result.data = nodes_1)

\* C2: in the report of a completed run, changed is true exactly when an
\* action was issued and at least one update command was submitted to the
\* control interface; a dry-run never reports changed.
ChangedIffExecuted ==
    pc = "done" =>
        /\ result.changed <=> (commands # <<>> /\ ~NoUpdateSubmitted)
        /\ check_mode => ~result.changed

\* C3: an update command that returns failure ends the run as failed at
\* once: it is the last command of the run.
AbortOnCommandFailure ==
    \A k \in CallsTo("update") :
        calls[k].out # "ok" => pc = "failed" /\ k = Len(calls)

\* C4: a state query that fails (non-success status or unparseable answer)
\* ends the run without a report: it is the last command of the run, so no
\* later node is queried and no update is submitted.
FailFastOnQuery ==
    \A k \in CallsTo("show") :
        calls[k].out # "ok" =>
            pc \in {"failed", "crashed"} /\ k = Len(calls)

\* C5: a liveness probe that reports the controller unreachable ends the
\* run as failed: no query and no update follows it.
ProbeFailureTerminal ==
    \A k \in CallsTo("ping") :
        calls[k].out # "ok" => pc = "failed" /\ Len(calls) = 1

\* a new_state is given and is no allowed token, or is DRAIN (in any case)
\* with no reason or an empty one
InvalidRequest ==
    /\ Truthy(new_state)
    /\ \/ Upper(Str(new_state)) \notin NODE_ALLOWED_STATES
       \/ Upper(Str(new_state)) = "DRAIN" /\ new_state_reason \in {None, ""}

\* C6: a request with a new_state that is not an allowed token, or with
\* new_state DRAIN and no reason, is rejected before any probe, query or
\* update, whatever the node list: the run fails with the result untouched.
ValidationPrecedence ==
    InvalidRequest =>
        /\ calls = <<>>
        /\ pc \in {"sanity", "failed"}
        /\ result = InitResult

ValidationPrecedenceWitness ==
    /\ pc = "failed"
    /\ calls = <<>>
    /\ new_state = "drain"
    /\ new_state_reason = None
    /\ Len(nodes) = MaxNodes

\* C7: an empty node list makes the run fail before any external call: no
\* probe, no query, no update.
EmptyListBeforeAnyCall ==
    Len(nodes) = 0 =>
        /\ calls = <<>>
        /\ pc \in Terminal => pc = "failed"

\* C8: once planning is reached with a desired state, an action is issued
\* for a node exactly when its state token or its reason differs in the first
\* snapshot; no action and no update command is for a node where neither does.
Minimality ==
    /\ \A k \in 1..Len(commands) : NodeDiffers(commands[k].node)
    /\ \A k \in CallsTo("update") : NodeDiffers(calls[k].node)
    /\ (pc \in Planning /\ Truthy(new_state)) =>
         \A j \in 1..Len(nodes) :
            ((pc = "update" => j < i) /\ NodeDiffers(nodes[j])) =>
                \E k \in 1..Len(commands) : commands[k].node = nodes[j]

MinimalityWitness ==
    /\ pc = "done"
    /\ ~check_mode
    /\ Len(nodes) = 2
    /\ NodeDiffers(nodes[1])
    /\ ~NodeDiffers(nodes[2])
    /\ Len(commands) = 1
    /\ Cardinality(CallsTo("update")) = 1

\* the first snapshot is complete and no node of it differs from the desired
\* state
AlreadyAsDesired ==
    /\ Truthy(new_state)
    /\ nodes_1 # EmptyDict
    /\ \A n \in DOMAIN nodes_1 : ~NodeDiffers(n)

\* C9: when the first snapshot has, for every node, the target token among
\* its state tokens and the desired reason as its reason, the plan is empty,
\* no update command is submitted, no second collection is made and changed
\* is false.
Idempotence ==
    AlreadyAsDesired =>
        /\ commands = <<>>
        /\ NoUpdateSubmitted
        /\ ~result.changed
        /\ ~result.scontrol_update_ran
        /\ pc # "collect_2"

IdempotenceWitness ==
    /\ pc = "done"
    /\ AlreadyAsDesired
    /\ new_state = "drain"
    /\ ~check_mode
    /\ Len(nodes) = 2
    /\ nodes[1] # nodes[2]

\* C10: without a new_state no Decision is computed and no update command is
\* issued; a completed run has made one collection pass over the node list
\* and reports changed = false, scontrol_update_ran = false, no commands and
\* the first snapshot as data.
ReadOnlyMode ==
    ~Truthy(new_state) =>
        /\ NoUpdateSubmitted
        /\ commands = <<>>
        /\ ~result.changed /\ ~result.scontrol_update_ran
        /\ ~result.state_changed /\ ~result.reason_changed
        /\ pc \notin {"update", "collect_2"}
        /\ pc = "done" =>
             /\ result.data = nodes_1
             /\ DOMAIN nodes_1 = Range(nodes)
             /\ LET shows == SelectSeq(calls, IsShow)
                IN  /\ Len(shows) = Len(nodes)
                    /\ \A k \in 1..Len(shows) : shows[k].node = nodes[k]

ReadOnlyModeWitness ==
    /\ pc = "done"
    /\ new_state = None
    /\ Len(nodes) = 2
    /\ nodes[1] # nodes[2]
    /\ result.data = nodes_1
    /\ Len(calls) = 3

\* the calls of the first collection are calls 2 .. Len(nodes) + 1; a show
\* call after them belongs to the second collection
FinalShows == {k \in CallsTo("show") : k > Len(nodes) + 1}
\* the node the update loop has handled last, 0 when none yet
LastHandled ==
    IF pc = "update" THEN i - 1
    ELSE IF pc \in Planning /\ Truthy(new_state) THEN Len(nodes) ELSE 0

\* C11: every query of the second collection comes after the last update
\* command; no update is issued between or after them; updates start only
\* when the first snapshot is complete; the flags of a Decision are computed
\* from the first snapshot, which never changes once taken.
SnapshotOrdering ==
    /\ \A k \in FinalShows : \A l \in CallsTo("update") : l < k
    /\ \A l \in CallsTo("update") :
          /\ l > Len(nodes) + 1
          /\ DOMAIN nodes_1 = Range(nodes)
    /\ pc = "update" => nodes_2 = EmptyDict /\ FinalShows = {}
    /\ LastHandled > 0 =>
          LET rec == nodes_1[nodes[LastHandled]]
          IN  /\ result.state_changed = (Upper(Str(new_state)) \notin rec.state)
              /\ result.reason_changed = (Str(new_state_reason) # rec.reason)

SnapshotOrderingWitness ==
    /\ pc = "done"
    /\ ~check_mode
    /\ Len(nodes) = 2
    /\ nodes[1] # nodes[2]
    /\ Cardinality(CallsTo("update")) = 2
    /\ Cardinality(FinalShows) = 2
    /\ result.data = nodes_2
    /\ nodes_2 # nodes_1

IsUpdate(c) == c.op = "update"
NodesOf(seq) == [k \in 1..Len(seq) |-> seq[k].node]

\* C12: the issued actions are in the order of their nodes in the node list
\* (the nodes handled so far that differ, each as often as it is listed), the
\* submitted update commands are the same nodes in the same order, and every
\* action carries the node name, new_state as given and the whole
\* new_state_reason (its text form), also when only the state token differed.
OrderAndCoupling ==
    /\ \A k \in 1..Len(commands) :
          /\ commands[k].node \in Range(nodes)
          /\ commands[k].state = new_state
          /\ commands[k].reason = Str(new_state_reason)
    /\ pc \in Planning =>
          /\ NodesOf(commands) =
                SelectSeq(SubSeq(nodes, 1, LastHandled), NodeDiffers)
          /\ ~check_mode => NodesOf(SelectSeq(calls, IsUpdate)) = NodesOf(commands)

OrderAndCouplingWitness ==
    /\ pc = "done"
    /\ ~check_mode
    /\ Len(nodes) = 2
    /\ nodes[1] # nodes[2]
    /\ new_state_reason = "maint"
    /\ nodes_1[nodes[1]].reason = "maint"
    /\ NodesOf(commands) = nodes
    /\ commands[1].reason = "maint"

\* C13: the node list is queried a second time exactly when at least one
\* update command was submitted; a completed run without a submitted update
\* (empty plan, no new_state, dry-run) has made no second round of queries
\* and reports the first snapshot.
RecollectionTrigger ==
    /\ FinalShows # {} => ~NoUpdateSubmitted
    /\ pc = "done" =>
          IF NoUpdateSubmitted
          THEN result.data = nodes_1 /\ nodes_2 = EmptyDict
          ELSE result.data = nodes_2 /\ Cardinality(FinalShows) = Len(nodes)

RejectedForReason ==
    /\ pc = "failed"
    /\ msg = "If next state if drain, we need 'new_state_reason' argument to be specified."

\* C14: with an allowed token, validation rejects the request for its
\* reason exactly when the token is DRAIN (in any case) and the reason is
\* absent or empty; a one-character reason is accepted with DRAIN, and any
\* other allowed token is accepted with or without a reason.
ReasonValidation ==
    (pc # "sanity" /\ Truthy(new_state)
        /\ Upper(Str(new_state)) \in NODE_ALLOWED_STATES) =>
        (RejectedForReason <=>
            (Upper(Str(new_state)) = "DRAIN" /\ new_state_reason \in {None, ""}))

\* C15: for the node handled last, state_changed is true exactly when the
\* upper-cased new_state is no member of the observed state tokens (a node
\* with more tokens than the target one is not changed), and reason_changed
\* exactly when the text of new_state_reason, None for an unset one, is not
\* the observed reason: an unset reason is changed against an empty one.
DiffRule ==
    LastHandled > 0 =>
        LET rec == nodes_1[nodes[LastHandled]]
            tok == Upper(Str(new_state))
            want == IF new_state_reason = None THEN "None" ELSE new_state_reason
        IN  /\ result.state_changed <=> tok \notin rec.state
            /\ result.reason_changed <=> want # rec.reason
            /\ (tok \in rec.state /\ rec.state # {tok}) => ~result.state_changed
            /\ (new_state_reason = None /\ rec.reason = "")
                  => result.reason_changed

DiffRuleWitness ==
    /\ pc = "done"
    /\ new_state = "RESUME"
    /\ new_state_reason = None
    /\ LastHandled = 2
    /\ nodes_1[nodes[2]] = [state |-> {"IDLE", "DRAIN"}, reason |-> ""]
    /\ result.reason_changed
    /\ result.state_changed

\* C16: within one run at most one update command is issued and submitted
\* for any node name, also when the node list names a node more than once.
OneActionPerNode ==
    /\ \A k, l \in 1..Len(commands) :
          commands[k].node = commands[l].node => k = l
    /\ \A k, l \in CallsTo("update") :
          calls[k].node = calls[l].node => k = l

\* C17: with nobody else changing the nodes and every update answered with
\* rc = 0 taking effect, the run after a completed run that was no dry-run
\* issues and submits no update command and reports changed = false.
Convergence ==
    (run = 2 /\ ~check_mode) =>
        /\ commands = <<>>
        /\ NoUpdateSubmitted
        /\ ~result.changed

\* the same with every update command of the first run answered with
\* rc = 0 (holds under SpecTwoRuns: only an update that failed unnoticed in
\* the first run makes the second one act)
ConvergenceAfterCleanRun ==
    (run = 2 /\ ~check_mode
        /\ \A k \in 1..Len(prev_calls) :
              prev_calls[k].op = "update" => prev_calls[k].out = "ok")
    => (commands = <<>> /\ NoUpdateSubmitted /\ ~result.changed)

NumCalls(op) == Cardinality(CallsTo(op))
CallBounds ==
    /\ NumCalls("ping") <= 1
    /\ NumCalls("update") <= Len(nodes)
    /\ NumCalls("show") <= 2 * Len(nodes)
    /\ nodes_1 = EmptyDict => NumCalls("show") <= Len(nodes)
    /\ NumCalls("show") > Len(nodes) => ~NoUpdateSubmitted \/ check_mode

\* C18: with every blocking call returning, every run comes to an end
\* (exit_json, fail_json, or an exception nothing catches), and for a list
\* of n nodes it makes at most one probe, n first queries, n updates and n
\* second queries: nothing is called again after a failure.
TerminationNoRetry == []CallBounds /\ <>(pc \in Terminal)

TerminationNoRetryWitness ==
    /\ pc = "done"
    /\ Len(nodes) = 2
    /\ NumCalls("ping") = 1
    /\ NumCalls("update") = 2
    /\ NumCalls("show") = 4
    /\ \E k \in 1..Len(calls) : calls[k].out # "ok"

TokenMissing(n) == Upper(Str(new_state)) \notin nodes_1[n].state

\* C19: in the report of a completed run, scontrol_update_ran / changed
\* implies state_changed or reason_changed, and state_changed is true
\* whenever the target token was missing from the observed state of some
\* node of the list, wherever that node stands in the list.
AggregateFlags ==
    (pc = "done" /\ Truthy(new_state)) =>
        /\ result.scontrol_update_ran =>
               result.state_changed \/ result.reason_changed
        /\ (\E k \in 1..Len(nodes) : TokenMissing(nodes[k])) =>
               result.state_changed

\* C20: a run that fails after an update command was executed with success
\* reports changed = true with the failure.
FailureReportsMutation ==
    (pc = "failed" /\ \E k \in CallsTo("update") : calls[k].out = "ok") =>
        result.changed

====
